---------------------------- MODULE Spec2Model ----------------------------
(***************************************************************************)
(* A model of src/post_processing.py (class PostProcessing).               *)
(*                                                                         *)
(* A DataFrame is a sequence of rows in index order.  Every row carries    *)
(* its index label `idx` (pandas' RangeIndex label, kept by a boolean      *)
(* filter) and one field per CSV column; the column "pd/pa" is the field   *)
(* pdpa.  A float is an exact rational <<n, d>>; NaNQ = <<0, 0>> is the    *)
(* float NaN.  A cell of a sparse column is <<v>>, or <<>> when missing.   *)
(***************************************************************************)
EXTENDS Integers, Sequences, FiniteSets, TLC

VARIABLES
    result_df,    \* self.result_df: the rows of the in-memory report
    output_file,  \* the rows last written to <output_dir>/results.xlsx
    plots,        \* the .png files saved so far
    walk,         \* what os.walk(input_dir) has still to yield
    pc,           \* where __call__ / process_file stands
    file_name,    \* process_file: basename up to the first '.'
    subdir,       \* process_file: directory of the file
    data,         \* process_file: the DataFrame read from the file
    groups,       \* plot_average_curve: the groups dict
    gi,           \* plot_average_curve: position in groups.items()
    fig,          \* plot_average_curve: values of the last figure drawn
    err,          \* message of the exception that escaped, "" if none
    call          \* outcome of the last direct call of a method

vars == <<result_df, output_file, plots, walk, pc, file_name, subdir, data,
          groups, gi, fig, err, call>>

-----------------------------------------------------------------------------
(* Bounds of the model and constants of the program *)

MaxLen == 4          \* longest recording of the fully enumerated family
MaskLen == 5         \* length of the recordings that enumerate the sparse runs
MaxCore == 4         \* marked rows of the recordings around the split threshold
MaxFiles == 2        \* most entries os.walk yields in one run

NumPoints == 100     \* num_points at both call sites
SplitMin == 1000     \* split_df_by_pdpa: fewer rows are not split
DiastolicPeak == 2   \* the marker code the segmentation looks for

-----------------------------------------------------------------------------
(* Floats as exact rationals *)

NaN == <<>>
NaNQ == <<0, 0>>
IsNaNQ(q) == q[2] = 0

Abs(x) == IF x < 0 THEN -x ELSE x

RECURSIVE GCD(_, _)
GCD(a, b) == IF b = 0 THEN a ELSE GCD(b, a % b)

Norm(q) ==
    IF q[2] = 0 THEN NaNQ
    ELSE LET g == GCD(Abs(q[1]), Abs(q[2]))
             s == IF q[2] < 0 THEN -1 ELSE 1
         IN  <<s * (q[1] \div g), s * (q[2] \div g)>>

AddQ(a, b) ==
    IF IsNaNQ(a) \/ IsNaNQ(b) THEN NaNQ
    ELSE Norm(<<a[1] * b[2] + b[1] * a[2], a[2] * b[2]>>)

RECURSIVE SumQ(_)
SumQ(qs) == IF qs = <<>> THEN <<0, 1>> ELSE AddQ(Head(qs), SumQ(Tail(qs)))

\* the sum of xs[lo] .. xs[hi], halving the range (numpy sums a long column
\* pairwise)
RECURSIVE SumRange(_, _, _)
SumRange(xs, lo, hi) ==
    IF lo > hi THEN 0
    ELSE IF lo = hi THEN xs[lo]
    ELSE LET mid == (lo + hi) \div 2
         IN  SumRange(xs, lo, mid) + SumRange(xs, mid + 1, hi)

\* a / b for two numbers of the time column (float division: 0/0 is NaN)
DivQ(a, b) == Norm(<<a, b>>)

\* np.mean of a list of floats: NaN for the empty list
np_mean(qs) ==
    IF qs = <<>> THEN NaNQ
    ELSE LET s == SumQ(qs) IN Norm(<<s[1], s[2] * Len(qs)>>)

\* Series.mean(): the mean of the non-missing cells, NaN when there is none
series_mean(df, col) ==
    LET present == SelectSeq(df, LAMBDA r : r[col] # NaN)
        values == [i \in 1..Len(present) |-> present[i][col][1]]
    IN  IF present = <<>> THEN NaNQ
        ELSE Norm(<<SumRange(values, 1, Len(present)), Len(present)>>)

\* Series.mean() of a column without missing cells ("pd/pa")
column_mean(df, col) ==
    IF df = <<>> THEN NaNQ
    ELSE LET values == [i \in 1..Len(df) |-> df[i][col]]
         IN  Norm(<<SumRange(values, 1, Len(df)), Len(df)>>)

-----------------------------------------------------------------------------
(* DataFrame access *)

\* df.index[df['peaks'] == 2].tolist()
diastolic_indices(df) ==
    LET sel == SelectSeq(df, LAMBDA r : r.peaks = DiastolicPeak)
    IN  [i \in 1..Len(sel) |-> sel[i].idx]

\* (mutant) the slice without the row of the end marker
loc_slice_half_open(df, start_idx, end_idx) ==
    SelectSeq(df, LAMBDA r : r.idx >= start_idx /\ r.idx < end_idx)

\* df.loc[start_idx:end_idx]: the rows whose label lies in the closed range
loc_slice(df, start_idx, end_idx) ==
    SelectSeq(df, LAMBDA r : r.idx >= start_idx /\ r.idx <= end_idx)

\* df.loc[label]: the row carrying the label
loc_row(df, label) == df[CHOOSE i \in 1..Len(df) : df[i].idx = label]

\* Series.first_valid_index() / last_valid_index(): <<label>>, <<>> for None
first_valid_index(interval, col) ==
    LET valid == SelectSeq(interval, LAMBDA r : r[col] # NaN)
    IN  IF valid = <<>> THEN <<>> ELSE <<valid[1].idx>>

last_valid_index(interval, col) ==
    LET valid == SelectSeq(interval, LAMBDA r : r[col] # NaN)
    IN  IF valid = <<>> THEN <<>> ELSE <<valid[Len(valid)].idx>>

-----------------------------------------------------------------------------
(* get_average_curve_between_diastolic_peaks *)

\* np.linspace(0, 1, n)
linspace(n) == [j \in 1..n |-> Norm(<<j - 1, n - 1>>)]

\* np.interp(scaled_time[j], original_time, interval_data), where
\* original_time = linspace(Len(interval_data)) and scaled_time = linspace(num_points);
\* j counts from 0.  The point j/(num_points-1) lies in the source interval
\* lo = floor(j*(L-1)/(num_points-1)), at the fraction rem/(num_points-1) of it.
np_interp(j, interval_data, num_points) ==
    LET L == Len(interval_data)
        pos == j * (L - 1)
        lo == pos \div (num_points - 1)
        rem == pos % (num_points - 1)
    IN  IF lo >= L - 1
        THEN <<interval_data[L], 1>>
        ELSE Norm(<<interval_data[lo + 1] * (num_points - 1)
                      + (interval_data[lo + 2] - interval_data[lo + 1]) * rem,
                    num_points - 1>>)

\* (mutant) every cycle starts at the first marker
cycle_pairs_from_first(indices) ==
    [i \in 1..(Len(indices) - 1) |-> <<indices[1], indices[i + 1]>>]

\* the (start_idx, end_idx) pairs the loop over range(len(diastolic_indices) - 1) visits
cycle_pairs(indices) ==
    [i \in 1..(Len(indices) - 1) |-> <<indices[i], indices[i + 1]>>]

\* (mutant) the values after the row of the start marker
interval_values_after_start(df, pair, signal) ==
    LET rows == loc_slice(df, pair[1] + 1, pair[2])
    IN  [i \in 1..Len(rows) |-> rows[i][signal]]

\* ifr_df.loc[start_idx:end_idx, signal].values
interval_values(df, pair, signal) ==
    LET rows == loc_slice(df, pair[1], pair[2])
    IN  [i \in 1..Len(rows) |-> rows[i][signal]]

\* (mutant) one marker passes the test
too_few_peaks_zero(indices) == Len(indices) < 1

\* len(diastolic_indices) < 2
too_few_peaks(indices) == Len(indices) < 2

NotEnoughPeaks == "Not enough diastolic peaks to calculate intervals."
NoValidIntervals == "No valid intervals found for averaging."

\* what `return avg_time, avg_curve` hands back
curve_return(avg_time, avg_curve) == <<avg_time, avg_curve>>

\* The outcome of one call: err is the message of the ValueError raised ("" if the
\* call returned), cycles the pairs the loop visited, skipped the number of times
\* the `continue` was taken, n_rescaled = len(rescaled_curves), ret the returned pair.
get_average_curve_between_diastolic_peaks(ifr_df, signal, num_points) ==
    LET indices == diastolic_indices(ifr_df)
        none == [err |-> "", cycles |-> <<>>, skipped |-> 0, n_rescaled |-> 0,
                 ret |-> <<<<>>, <<>>>>]
    IN  IF too_few_peaks(indices)
        THEN [none EXCEPT !.err = NotEnoughPeaks]
        ELSE
          LET cycles == cycle_pairs(indices)
              intervals == [i \in 1..Len(cycles) |->
                                interval_values(ifr_df, cycles[i], signal)]
              kept == SelectSeq(intervals, LAMBDA v : ~(Len(v) < 2))
              rescaled_curves ==
                  [c \in 1..Len(kept) |->
                      [j \in 1..num_points |-> np_interp(j - 1, kept[c], num_points)]]
              avg_curve ==
                  [j \in 1..num_points |->
                      np_mean([c \in 1..Len(rescaled_curves) |-> rescaled_curves[c][j]])]
              avg_time == linspace(num_points)
              seen == [none EXCEPT !.cycles = cycles,
                                   !.skipped = Len(intervals) - Len(kept),
                                   !.n_rescaled = Len(kept)]
          IN  IF Len(rescaled_curves) = 0
              THEN [seen EXCEPT !.err = NoValidIntervals]
              ELSE [seen EXCEPT !.ret = curve_return(avg_time, avg_curve)]

-----------------------------------------------------------------------------
(* split_df_by_pdpa *)

\* the k-th smallest value (k from 0) of the column pd/pa
order_stat(df, k) ==
    CHOOSE v \in {df[i].pdpa : i \in 1..Len(df)} :
        /\ Len(SelectSeq(df, LAMBDA r : r.pdpa < v)) <= k
        /\ Len(SelectSeq(df, LAMBDA r : r.pdpa <= v)) > k

\* df['pd/pa'].quantile(qn/qd), pandas' default linear interpolation between the
\* two order statistics around position (n-1)*qn/qd
quantile(df, qn, qd) ==
    LET n == Len(df)
        pos == (n - 1) * qn
        lo == pos \div qd
        rem == pos % qd
        a == order_stat(df, lo)
        b == IF rem = 0 THEN a ELSE order_stat(df, lo + 1)
    IN  Norm(<<a * qd + (b - a) * rem, qd>>)

\* (mutant) the lower bound itself counts as low
below_or_equal(r, bound) == r.pdpa * bound[2] <= bound[1]

\* df_copy['pd/pa'] < lower_bound
below(r, bound) == r.pdpa * bound[2] < bound[1]
\* df_copy['pd/pa'] > upper_bound
above(r, bound) == r.pdpa * bound[2] > bound[1]

\* returns <<df_low, df_high>>
split_df_by_pdpa(df) ==
    IF Len(df) < SplitMin
    THEN <<df, df>>
    ELSE LET lower_bound == quantile(df, 1, 4)
             upper_bound == quantile(df, 3, 4)
         IN  <<SelectSeq(df, LAMBDA r : below(r, lower_bound)),
               SelectSeq(df, LAMBDA r : above(r, upper_bound))>>

-----------------------------------------------------------------------------
(* get_measurements *)

RECURSIVE Flatten(_)
Flatten(ss) == IF ss = <<>> THEN <<>> ELSE Head(ss) \o Flatten(Tail(ss))

\* (mutant) a cycle without a valid index contributes a zero
normalized_time_or_zero(df, pair, valid_idx) ==
    LET start_t == loc_row(df, pair[1]).time
        end_t == loc_row(df, pair[2]).time
        time_range == end_t - start_t
    IN  IF valid_idx = <<>> THEN <<<<0, 1>>>>
        ELSE <<DivQ(loc_row(df, valid_idx[1]).time - start_t, time_range)>>

\* (time at valid_idx - start_t) / time_range for one cycle: <<q>>, or <<>> when
\* the index is None and nothing is appended
normalized_time(df, pair, valid_idx) ==
    LET start_t == loc_row(df, pair[1]).time
        end_t == loc_row(df, pair[2]).time
        time_range == end_t - start_t
    IN  IF valid_idx = <<>> THEN <<>>
        ELSE <<DivQ(loc_row(df, valid_idx[1]).time - start_t, time_range)>>

\* the list start_time_<channel> after the loop
start_times(df, cycles, col) ==
    Flatten([i \in 1..Len(cycles) |->
        normalized_time(df, cycles[i],
            first_valid_index(loc_slice(df, cycles[i][1], cycles[i][2]), col))])

\* the list end_time_<channel> after the loop
end_times(df, cycles, col) ==
    Flatten([i \in 1..Len(cycles) |->
        normalized_time(df, cycles[i],
            last_valid_index(loc_slice(df, cycles[i][1], cycles[i][2]), col))])

\* meas is the returned 7-tuple
get_measurements(df) ==
    LET iFR_mean == series_mean(df, "iFR")
        mid_systolic_ratio_mean == series_mean(df, "mid_systolic_ratio")
        pdpa_mean == column_mean(df, "pdpa")
        indices == diastolic_indices(df)
    IN  IF too_few_peaks(indices)
        THEN [err |-> NotEnoughPeaks, cycles |-> <<>>, meas |-> <<>>]
        ELSE
          LET cycles == cycle_pairs(indices)
          IN  [err |-> "", cycles |-> cycles,
               meas |-> <<iFR_mean, mid_systolic_ratio_mean, pdpa_mean,
                          np_mean(start_times(df, cycles, "aortic_ratio")),
                          np_mean(end_times(df, cycles, "aortic_ratio")),
                          np_mean(start_times(df, cycles, "diastolic_ratio")),
                          np_mean(end_times(df, cycles, "diastolic_ratio"))>>]

-----------------------------------------------------------------------------
(* The recordings read_csv can hand to the program.  Timestamps increase      *)
(* strictly with the index; the pressure channels and pd/pa have no missing   *)
(* cells; iFR, mid_systolic_ratio and the two ratio channels are sparse.      *)

Row(i, t, pa, pdist, ratio, ifr, msr, pk, ar, dr) ==
    [idx |-> i, time |-> t, p_aortic_smooth |-> pa, p_distal_smooth |-> pdist,
     pdpa |-> ratio, iFR |-> ifr, mid_systolic_ratio |-> msr, peaks |-> pk,
     aortic_ratio |-> ar, diastolic_ratio |-> dr]

\* sampling instants: tv = 1 evenly spaced, tv = 2 with growing steps
time_of(tv, i) == IF tv = 1 THEN i ELSE (i * (i + 1)) \div 2

pa_of(i) == 80 + ((7 * i) % 13)
pd_of(i) == 60 + ((5 * i) % 11)

\* a recording with the given marker codes; the other columns follow the index
Marked(pk, tv) ==
    [k \in 1..Len(pk) |->
        LET i == k - 1
        IN  Row(i, time_of(tv, i), pa_of(i), pd_of(i), 70 + 3 * (i % 4),
                IF i % 2 = 1 THEN <<90 - i>> ELSE NaN,
                IF i % 3 = 0 THEN <<50 + i>> ELSE NaN,
                pk[k],
                IF i % 3 = 1 THEN <<i + 3>> ELSE NaN,
                IF i % 2 = 0 THEN <<i + 1>> ELSE NaN)]

\* a recording of n rows with markers on the first and the last row (and on the
\* middle row when mid) whose aortic_ratio is present exactly on the rows of
\* `present`, and whose diastolic_ratio is present on the mirrored rows
Masked(n, present, mid, tv) ==
    [k \in 1..n |->
        LET i == k - 1
        IN  Row(i, time_of(tv, i), pa_of(i), pd_of(i), 70 + 3 * (i % 4),
                IF i % 2 = 1 THEN <<90 - i>> ELSE NaN,
                IF i % 3 = 0 THEN <<50 + i>> ELSE NaN,
                IF i = 0 \/ i = n - 1 \/ (mid /\ i = n \div 2)
                    THEN DiastolicPeak ELSE 0,
                IF i \in present THEN <<i + 3>> ELSE NaN,
                IF (n - 1 - i) \in present THEN <<i + 1>> ELSE NaN)]

\* rows appended after the marked rows of a long recording
PadLen == SplitMin - 4

\* a recording around the split threshold: Len(levels) marked rows with pd/pa 10
\* ("lo") or 90 ("hi"), then PadLen unmarked rows with pd/pa 40, 45, 50, 55 in
\* turn; when tail, the last row is a marker with pd/pa 10
Long(levels, tail) ==
    LET n == Len(levels)
        total == n + PadLen
    IN  [k \in 1..total |->
            LET i == k - 1
                core == k <= n
                last == tail /\ k = total
                ratio == IF core THEN (IF levels[k] = "lo" THEN 10 ELSE 90)
                         ELSE IF last THEN 10 ELSE 40 + 5 * ((i - n) % 4)
            IN  Row(i, i, pa_of(i), pd_of(i), ratio,
                    IF core \/ last THEN <<ratio>> ELSE NaN,
                    IF core THEN <<50 + i>> ELSE NaN,
                    IF core \/ last THEN DiastolicPeak ELSE 0,
                    IF i % 3 = 1 THEN <<i + 3>> ELSE NaN,
                    IF core /\ i % 2 = 0 THEN <<i + 1>> ELSE NaN)]

PeakCodes == {0, 1, DiastolicPeak}

EnumeratedRecordings ==
    {Marked(pk, tv) : pk \in UNION {[1..n -> PeakCodes] : n \in 0..MaxLen},
                      tv \in {1, 2}}

MaskedRecordings ==
    {Masked(MaskLen, present, mid, tv) :
        present \in SUBSET (0..(MaskLen - 1)), mid \in BOOLEAN, tv \in {1, 2}}

LongRecordings ==
    {Long(levels, tail) :
        levels \in UNION {[1..n -> {"lo", "hi"}] : n \in 3..MaxCore},
        tail \in BOOLEAN}

\* the two recordings the documentation works through
SegmentationExample == Marked(<<0, 0, 2, 0, 2, 0, 0, 2>>, 1)
SparseRunExample == Masked(5, {2, 3}, FALSE, 1)

Recordings ==
    EnumeratedRecordings \cup MaskedRecordings \cup LongRecordings
        \cup {SegmentationExample, SparseRunExample}

-----------------------------------------------------------------------------
(* Direct calls of the methods on one recording.  The methods are pure, so  *)
(* a behaviour makes one call and keeps its outcome in `call`.               *)

GroupNames == <<"all", "low", "high">>
Signals == {"p_aortic_smooth", "p_distal_smooth"}

\* the DataFrame plot_average_curve files under the group name
group_of(df, g) ==
    IF g = "all" THEN df
    ELSE IF g = "low" THEN split_df_by_pdpa(df)[1]
    ELSE split_df_by_pdpa(df)[2]

NoCall ==
    [op |-> "none", group |-> "", signal |-> "", arg |-> <<>>, err |-> "",
     cycles |-> <<>>, skipped |-> 0, n_rescaled |-> 0, ret |-> <<<<>>, <<>>>>,
     meas |-> <<>>, low |-> <<>>, high |-> <<>>]

CallCurve(g, s) ==
    /\ pc = "direct"
    /\ call.op = "none"
    /\ LET arg == group_of(data, g)
           r == get_average_curve_between_diastolic_peaks(arg, s, NumPoints)
       IN  call' = [NoCall EXCEPT !.op = "curve", !.group = g, !.signal = s,
                                  !.arg = arg, !.err = r.err, !.cycles = r.cycles,
                                  !.skipped = r.skipped,
                                  !.n_rescaled = r.n_rescaled, !.ret = r.ret]
    /\ UNCHANGED <<result_df, output_file, plots, walk, pc, file_name, subdir,
                   data, groups, gi, fig, err>>

CallMeasure(g) ==
    /\ pc = "direct"
    /\ call.op = "none"
    /\ LET arg == group_of(data, g)
           r == get_measurements(arg)
       IN  call' = [NoCall EXCEPT !.op = "measure", !.group = g, !.arg = arg,
                                  !.err = r.err, !.cycles = r.cycles,
                                  !.meas = r.meas]
    /\ UNCHANGED <<result_df, output_file, plots, walk, pc, file_name, subdir,
                   data, groups, gi, fig, err>>

CallSplit ==
    /\ pc = "direct"
    /\ call.op = "none"
    /\ LET r == split_df_by_pdpa(data)
       IN  call' = [NoCall EXCEPT !.op = "split", !.group = "all", !.arg = data,
                                  !.low = r[1], !.high = r[2]]
    /\ UNCHANGED <<result_df, output_file, plots, walk, pc, file_name, subdir,
                   data, groups, gi, fig, err>>

NoFig == <<>>

InitCalls ==
    /\ result_df = <<>>
    /\ output_file = <<>>
    /\ plots = {}
    /\ walk = <<>>
    /\ pc = "direct"
    /\ file_name = <<>>
    /\ subdir = ""
    /\ data \in Recordings
    /\ groups = <<>>
    /\ gi = 0
    /\ fig = NoFig
    /\ err = ""
    /\ call = NoCall

NextCalls ==
    \/ \E g \in {"all", "low", "high"}, s \in Signals : CallCurve(g, s)
    \/ \E g \in {"all", "low", "high"} : CallMeasure(g)
    \/ CallSplit

SpecCalls == InitCalls /\ [][NextCalls]_vars

-----------------------------------------------------------------------------
(* File names are sequences of characters *)

\* sub in s
Contains(sub, s) ==
    \E i \in 1..(Len(s) - Len(sub) + 1) : SubSeq(s, i, i + Len(sub) - 1) = sub

\* s.endswith(suffix)
EndsWith(s, suffix) ==
    /\ Len(s) >= Len(suffix)
    /\ SubSeq(s, Len(s) - Len(suffix) + 1, Len(s)) = suffix

\* s.split('.')[0]
BeforeFirstDot(s) ==
    IF \E i \in 1..Len(s) : s[i] = "."
    THEN SubSeq(s, 1, (CHOOSE i \in 1..Len(s) :
                          s[i] = "." /\ \A k \in 1..(i - 1) : s[k] # ".") - 1)
    ELSE s

CsvSuffix == <<".", "c", "s", "v">>
RestWord == <<"r", "e", "s", "t">>
AdeWord == <<"a", "d", "e">>

\* name = 'rest' if 'rest' in file_name else 'ado' if 'ade' in file_name else 'dobu'
condition_name(fname) ==
    IF Contains(RestWord, fname) THEN "rest"
    ELSE IF Contains(AdeWord, fname) THEN "ado"
    ELSE "dobu"

-----------------------------------------------------------------------------
(* The report *)

Conditions == {"rest", "ado", "dobu"}

\* a cell no key of new_row fills
Missing == <<>>

\* the row pd.DataFrame([new_row]) contributes under the columns of result_df:
\* stats[c] holds the cells of the columns iFR_mean_<c>,
\* mid_systolic_ratio_mean_<c> and pdpa_mean_<c>
report_row(fname, name, iFR_mean, mid_systolic_ratio_mean, pdpa_mean) ==
    [patient_id |-> fname,
     stats |-> [c \in Conditions |->
                   IF c = name
                   THEN <<iFR_mean, mid_systolic_ratio_mean, pdpa_mean>>
                   ELSE <<Missing, Missing, Missing>>]]

\* (mutant) a row with the same patient_id is replaced, not added
update_results_df_merged(df_rows, m, fname) ==
    LET name == condition_name(fname)
        new_row == report_row(fname, name, m.meas[1], m.meas[2], m.meas[3])
    IN  IF \E i \in 1..Len(df_rows) : df_rows[i].patient_id = fname
        THEN [i \in 1..Len(df_rows) |->
                 IF df_rows[i].patient_id = fname THEN new_row ELSE df_rows[i]]
        ELSE Append(df_rows, new_row)

\* update_results_df: the new value of self.result_df (also what to_excel writes),
\* given that get_measurements returned m
update_results_df(df_rows, m, fname) ==
    LET name == condition_name(fname)
        new_row == report_row(fname, name, m.meas[1], m.meas[2], m.meas[3])
    IN  Append(df_rows, new_row)

\* (mutant) the low subgroup is measured for the report
measured_data_low(df, grp) == grp[2]

\* the DataFrame update_results_df measures: process_file passes it `data`
measured_data(df, grp) == df

-----------------------------------------------------------------------------
(* The directory tree under input_dir *)

Entry(dir, file, content) == [dir |-> dir, file |-> file, content |-> content]

ShortRecording == Marked(<<2, 0, 2, 2>>, 2)
OnePeakRecording == Marked(<<0, 2, 0>>, 1)
LongRecording == Long(<<"lo", "hi", "lo", "hi">>, TRUE)
LowFailsRecording == Long(<<"hi", "hi", "lo", "hi">>, FALSE)
HighFailsRecording == Long(<<"lo", "lo", "hi", "lo">>, FALSE)

\* the files of the tree with what each holds
Tree ==
    { Entry("in/a", <<"p", "1", "_", "r", "e", "s", "t", ".", "c", "s", "v">>, ShortRecording),
      Entry("in/a", <<"p", "1", "_", "a", "d", "e", ".", "c", "s", "v">>, SparseRunExample),
      Entry("in/a", <<"p", "1", "_", "d", "o", "b", "u", ".", "c", "s", "v">>, LongRecording),
      Entry("in/b", <<"r", "e", "s", "t", "_", "a", "d", "e", ".", "c", "s", "v">>, LongRecording),
      Entry("in/b", <<"p", "2", ".", "r", "e", "s", "t", ".", "c", "s", "v">>, ShortRecording),
      Entry("in/b", <<"p", "2", "_", "a", "d", "e", ".", "c", "s", "v">>, OnePeakRecording),
      Entry("in/b", <<"p", "3", "_", "r", "e", "s", "t", ".", "c", "s", "v">>, LowFailsRecording),
      Entry("in/c", <<"p", "3", "_", "a", "d", "e", ".", "c", "s", "v">>, HighFailsRecording),
      Entry("in/c", <<"n", "o", "t", "e", "s", ".", "t", "x", "t">>, <<>>),
      Entry("in", <<"p", "0", "_", "r", "e", "s", "t", ".", "c", "s", "v">>, ShortRecording) }

\* what os.walk yields of a file: its directory and its name
Entries == {[dir |-> t.dir, file |-> t.file] : t \in Tree}

\* pd.read_csv(os.path.join(subdir, file))
read_csv(entry) ==
    (CHOOSE t \in Tree : t.dir = entry.dir /\ t.file = entry.file).content

\* os.walk may come upon any files of the tree, the same one again included
Walks == UNION {[1..n -> Entries] : n \in 0..MaxFiles}

-----------------------------------------------------------------------------
(* __call__ and process_file *)

InputDir == "in"

\* the second test of __call__ and the first: a .csv file outside the root
Selected(entry) == entry.dir # InputDir /\ EndsWith(entry.file, CsvSuffix)

SkipEntry ==
    /\ pc = "walk"
    /\ walk # <<>>
    /\ ~Selected(Head(walk))
    /\ walk' = Tail(walk)
    /\ UNCHANGED <<result_df, output_file, plots, pc, file_name, subdir, data,
                   groups, gi, fig, err, call>>

\* process_file up to the call of plot_average_curve
StartFile ==
    /\ pc = "walk"
    /\ walk # <<>>
    /\ Selected(Head(walk))
    /\ data' = read_csv(Head(walk))
    /\ file_name' = BeforeFirstDot(Head(walk).file)
    /\ subdir' = Head(walk).dir
    /\ walk' = Tail(walk)
    /\ pc' = "split"
    /\ UNCHANGED <<result_df, output_file, plots, groups, gi, fig, err, call>>

\* plot_average_curve up to its loop
SplitGroups ==
    /\ pc = "split"
    /\ LET r == split_df_by_pdpa(data)
       IN  groups' = <<data, r[1], r[2]>>
    /\ gi' = 1
    /\ pc' = "plot"
    /\ UNCHANGED <<result_df, output_file, plots, walk, file_name, subdir, data,
                   fig, err, call>>

\* the message of the first exception one pass of the loop raises, "" if none;
\* a, d and m are the outcomes of its three calls, made in this order
group_error(a, d, m) ==
    IF a.err # "" THEN a.err
    ELSE IF d.err # "" THEN d.err
    ELSE m.err

\* one pass of the loop of plot_average_curve that saves its figure
PlotGroup ==
    /\ pc = "plot"
    /\ LET a == get_average_curve_between_diastolic_peaks(
                    groups[gi], "p_aortic_smooth", NumPoints)
           d == get_average_curve_between_diastolic_peaks(
                    groups[gi], "p_distal_smooth", NumPoints)
           m == get_measurements(groups[gi])
       IN  /\ group_error(a, d, m) = ""
           /\ fig' = [group |-> GroupNames[gi], avg_time |-> a.ret[1],
                      avg_curve_aortic |-> a.ret[2], avg_curve_distal |-> d.ret[2],
                      meas |-> m.meas]
    /\ plots' = plots \cup {[dir |-> subdir, file |-> file_name,
                             group |-> GroupNames[gi]]}
    /\ IF gi = Len(GroupNames)
       THEN pc' = "update" /\ gi' = 0
       ELSE pc' = pc /\ gi' = gi + 1
    /\ UNCHANGED <<result_df, output_file, walk, file_name, subdir, data,
                   groups, err, call>>

\* (mutant) __call__ catches the exception and goes on with the next file
PlotGroupRaise_caught ==
    /\ pc = "plot"
    /\ LET a == get_average_curve_between_diastolic_peaks(
                    groups[gi], "p_aortic_smooth", NumPoints)
           d == get_average_curve_between_diastolic_peaks(
                    groups[gi], "p_distal_smooth", NumPoints)
           m == get_measurements(groups[gi])
       IN  group_error(a, d, m) # ""
    /\ pc' = "walk"
    /\ file_name' = <<>>
    /\ subdir' = ""
    /\ data' = <<>>
    /\ groups' = <<>>
    /\ gi' = 0
    /\ fig' = NoFig
    /\ UNCHANGED <<result_df, output_file, plots, walk, err, call>>

\* one pass of the loop that raises: nothing catches the exception, so it leaves
\* plot_average_curve, process_file and __call__
PlotGroupRaise ==
    /\ pc = "plot"
    /\ LET a == get_average_curve_between_diastolic_peaks(
                    groups[gi], "p_aortic_smooth", NumPoints)
           d == get_average_curve_between_diastolic_peaks(
                    groups[gi], "p_distal_smooth", NumPoints)
           m == get_measurements(groups[gi])
       IN  /\ group_error(a, d, m) # ""
           /\ err' = group_error(a, d, m)
    /\ pc' = "aborted"
    /\ UNCHANGED <<result_df, output_file, plots, walk, file_name, subdir, data,
                   groups, gi, fig, call>>

\* process_file's call of update_results_df, and the return to the loop of __call__
UpdateResults ==
    /\ pc = "update"
    /\ LET m == get_measurements(measured_data(data, groups))
       IN  IF m.err # ""
           THEN /\ err' = m.err
                /\ pc' = "aborted"
                /\ UNCHANGED <<result_df, output_file, file_name, subdir, data,
                               groups, fig>>
           ELSE /\ result_df' = update_results_df(result_df, m, file_name)
                /\ output_file' = result_df'
                /\ pc' = "walk"
                /\ file_name' = <<>>
                /\ subdir' = ""
                /\ data' = <<>>
                /\ groups' = <<>>
                /\ fig' = NoFig
                /\ err' = err
    /\ UNCHANGED <<plots, walk, gi, call>>

\* os.walk is exhausted and __call__ returns
Finish ==
    /\ pc = "walk"
    /\ walk = <<>>
    /\ pc' = "done"
    /\ UNCHANGED <<result_df, output_file, plots, walk, file_name, subdir, data,
                   groups, gi, fig, err, call>>

-----------------------------------------------------------------------------
(* The runs *)

\* the state __init__ leaves
Init ==
    /\ result_df = <<>>
    /\ output_file = result_df
    /\ plots = {}
    /\ walk \in Walks
    /\ pc = "walk"
    /\ file_name = <<>>
    /\ subdir = ""
    /\ data = <<>>
    /\ groups = <<>>
    /\ gi = 0
    /\ fig = NoFig
    /\ err = ""
    /\ call = NoCall

Next ==
    \/ SkipEntry
    \/ StartFile
    \/ SplitGroups
    \/ PlotGroup
    \/ PlotGroupRaise
    \/ UpdateResults
    \/ Finish

Spec == Init /\ [][Next]_vars

-----------------------------------------------------------------------------
(* What the properties below measure the outcomes against.  These read the    *)
(* recording itself, never an operator of the model above.                    *)

\* a <= b for two floats; false when either is NaN
LeQ(a, b) == IF a[2] = 0 \/ b[2] = 0 THEN FALSE ELSE a[1] * b[2] <= b[1] * a[2]

\* the labels of the rows marked as diastolic peaks
MarkerLabels(df) == {df[p].idx : p \in {q \in 1..Len(df) : df[q].peaks = 2}}

\* the consecutive pairs of a finite set of labels, in increasing order
ConsecutivePairs(M) ==
    LET nth(i) == CHOOSE x \in M : Cardinality({y \in M : y < x}) = i - 1
    IN  [i \in 1..(Cardinality(M) - 1) |-> <<nth(i), nth(i + 1)>>]

ExpectedCycles(df) == ConsecutivePairs(MarkerLabels(df))

\* the row carrying a label
RowAt(df, label) == df[CHOOSE p \in 1..Len(df) : df[p].idx = label]

\* the number of rows whose label lies between the two markers, both included
RowsBetween(df, pair) ==
    Cardinality({p \in 1..Len(df) : df[p].idx >= pair[1] /\ df[p].idx <= pair[2]})

\* the mean over a sequence of cycles of an integer quantity of the cycle
RECURSIVE TotalOf(_, _)
TotalOf(xs, k) == IF k = 0 THEN 0 ELSE xs[k] + TotalOf(xs, k - 1)

MeanOfInts(xs) == Norm(<<TotalOf(xs, Len(xs)), Len(xs)>>)

\* the labels within a cycle on which the channel has a value
ValidLabels(df, pair, col) ==
    {df[p].idx : p \in {q \in 1..Len(df) :
        df[q].idx >= pair[1] /\ df[q].idx <= pair[2] /\ df[q][col] # <<>>}}

MinOf(S) == CHOOSE x \in S : \A y \in S : x <= y
MaxOf(S) == CHOOSE x \in S : \A y \in S : x >= y

\* the mean, over the cycles with a valid label, of the normalized time of the
\* first (side = "start") or last (side = "end") valid label; NaN when no cycle
\* has one
ExpectedTiming(df, col, side) ==
    LET cycles == ExpectedCycles(df)
        order == [i \in 1..Len(cycles) |-> i]
        contributing ==
            SelectSeq(order, LAMBDA i : ValidLabels(df, cycles[i], col) # {})
        at(i) == LET V == ValidLabels(df, cycles[i], col)
                     x == IF side = "start" THEN MinOf(V) ELSE MaxOf(V)
                     t0 == RowAt(df, cycles[i][1]).time
                     t1 == RowAt(df, cycles[i][2]).time
                 IN  Norm(<<RowAt(df, x).time - t0, t1 - t0>>)
        total == SumQ([k \in 1..Len(contributing) |-> at(contributing[k])])
    IN  IF Len(contributing) = 0 THEN NaNQ
        ELSE Norm(<<total[1], total[2] * Len(contributing)>>)

\* the value at sorted position k (from 0) of the pd/pa column
KthSmallest(df, k) ==
    LET vals == {df[p].pdpa : p \in 1..Len(df)}
        less(v) == Cardinality({p \in 1..Len(df) : df[p].pdpa < v})
        upto(v) == Cardinality({p \in 1..Len(df) : df[p].pdpa <= v})
    IN  CHOOSE v \in vals : less(v) <= k /\ k < upto(v)

\* four times the percentile (25 * quarters) of pd/pa, linearly interpolated
\* between the sorted positions around (n - 1) * quarters / 4
FourTimesPercentile(df, quarters) ==
    LET pos == (Len(df) - 1) * quarters
        k == pos \div 4
        f == pos % 4
    IN  IF f = 0 THEN 4 * KthSmallest(df, k)
        ELSE (4 - f) * KthSmallest(df, k) + f * KthSmallest(df, k + 1)

\* the mean of the cells of a sparse column that are present
RECURSIVE Total(_, _, _)
Total(df, col, n) == IF n = 0 THEN 0 ELSE df[n][col][1] + Total(df, col, n - 1)

MeanPresent(df, col) ==
    LET filled == SelectSeq(df, LAMBDA r : r[col] # <<>>)
    IN  IF filled = <<>> THEN <<0, 0>>
        ELSE Norm(<<Total(filled, col, Len(filled)), Len(filled)>>)

\* the mean of pd/pa: the sum of value * (rows holding the value), over the rows
MeanRatio(df) ==
    LET vals == {df[p].pdpa : p \in 1..Len(df)}
        weighted == [v \in vals |-> v * Len(SelectSeq(df, LAMBDA r : r.pdpa = v))]
        RECURSIVE over(_)
        over(S) == IF S = {} THEN 0
                   ELSE LET v == CHOOSE x \in S : TRUE IN weighted[v] + over(S \ {v})
    IN  Norm(<<over(vals), Len(df)>>)

HasWord(s, w) ==
    \E i \in 1..Len(s) :
        /\ i + Len(w) - 1 <= Len(s)
        /\ \A k \in 1..Len(w) : s[i + k - 1] = w[k]

-----------------------------------------------------------------------------
(* Properties of the direct calls (SpecCalls) *)

\* C1: a recording or subgroup with k >= 2 diastolic markers is segmented, by
\* get_average_curve_between_diastolic_peaks and by get_measurements alike, into
\* exactly k-1 cycles, the i-th running from the i-th marker's index to the
\* (i+1)-th marker's; marker codes [0,0,2,0,2,0,0,2] give the cycles (2,4), (4,7).
C1_Segmentation ==
    (call.op \in {"curve", "measure"}) =>
        LET M == MarkerLabels(call.arg)
        IN  /\ Cardinality(M) >= 2 =>
                  /\ Len(call.cycles) = Cardinality(M) - 1
                  /\ call.cycles = ConsecutivePairs(M)
            /\ call.arg = SegmentationExample =>
                  call.cycles = <<<<2, 4>>, <<4, 7>>>>

C1_Witness ==
    /\ call.op = "measure"
    /\ call.arg = SegmentationExample
    /\ Len(call.cycles) = 2

\* C2: with 0 or 1 diastolic markers every entry point raises the
\* insufficient-peaks error and returns nothing.
C2_InsufficientPeaks ==
    (call.op \in {"curve", "measure"} /\ Cardinality(MarkerLabels(call.arg)) < 2) =>
        /\ call.err = "Not enough diastolic peaks to calculate intervals."
        /\ call.ret = <<<<>>, <<>>>>
        /\ call.meas = <<>>

C2_Witness ==
    /\ call.op = "measure"
    /\ Cardinality(MarkerLabels(call.arg)) = 1
    /\ call.err = "Not enough diastolic peaks to calculate intervals."

\* C3: when the call returns, the averaged curve has exactly num_points entries;
\* its first entry is the mean over the retained cycles of the sample on the
\* cycle's start marker and its last entry the mean of the sample on the end
\* marker (the slice includes both markers).
C3_CurveEnds ==
    (call.op = "curve" /\ call.err = "") =>
        LET df == call.arg
            cycles == ExpectedCycles(df)
            retained == SelectSeq(cycles, LAMBDA c : RowsBetween(df, c) >= 2)
            firsts == [i \in 1..Len(retained) |->
                          RowAt(df, retained[i][1])[call.signal]]
            lasts == [i \in 1..Len(retained) |->
                          RowAt(df, retained[i][2])[call.signal]]
            avg_curve == call.ret[2]
        IN  /\ Len(retained) >= 1
            /\ Len(avg_curve) = NumPoints
            /\ avg_curve[1] = MeanOfInts(firsts)
            /\ avg_curve[NumPoints] = MeanOfInts(lasts)

C3_Witness ==
    /\ call.op = "curve"
    /\ call.err = ""
    /\ call.n_rescaled >= 2
    /\ call.ret[2][1] # call.ret[2][NumPoints]
    /\ call.ret[2][1][2] # 1

\* C4: each of the four timing statistics of get_measurements lies in [0,1] when
\* some cycle has a valid index of the channel and is NaN when none has; it is
\* the mean over the contributing cycles alone.  For the 5-sample cycle over
\* time 0..4 with aortic_ratio [NaN,NaN,5,6,NaN] the start is 0.5, the end 0.75.
C4_Timing ==
    (call.op = "measure" /\ call.err = "") =>
        LET df == call.arg
            cycles == ExpectedCycles(df)
            some(col) == \E i \in 1..Len(cycles) : ValidLabels(df, cycles[i], col) # {}
            ok(k, col, side) ==
                /\ call.meas[k] = ExpectedTiming(df, col, side)
                /\ some(col) => /\ LeQ(<<0, 1>>, call.meas[k])
                                /\ LeQ(call.meas[k], <<1, 1>>)
                /\ ~some(col) => IsNaNQ(call.meas[k])
        IN  /\ ok(4, "aortic_ratio", "start")
            /\ ok(5, "aortic_ratio", "end")
            /\ ok(6, "diastolic_ratio", "start")
            /\ ok(7, "diastolic_ratio", "end")
            /\ df = SparseRunExample =>
                  call.meas[4] = <<1, 2>> /\ call.meas[5] = <<3, 4>>

C4_Witness ==
    /\ call.op = "measure"
    /\ call.arg = SparseRunExample
    /\ call.meas[4] = <<1, 2>>
    /\ call.meas[5] = <<3, 4>>
    /\ IsNaNQ(call.meas[6]) = FALSE

\* C5: below 1000 rows both subgroups are the whole input; otherwise the low
\* subgroup is exactly the rows with pd/pa strictly below the 25th percentile and
\* the high subgroup exactly those strictly above the 75th, so the two are
\* disjoint subsets of the input and hold no row of the interquartile range.
C5_Split ==
    (call.op = "split") =>
        LET df == call.arg
            labels(rows) == {rows[p].idx : p \in 1..Len(rows)}
            p25 == FourTimesPercentile(df, 1)
            p75 == FourTimesPercentile(df, 3)
        IN  IF Len(df) < 1000
            THEN call.low = df /\ call.high = df
            ELSE /\ call.low = SelectSeq(df, LAMBDA r : 4 * r.pdpa < p25)
                 /\ call.high = SelectSeq(df, LAMBDA r : 4 * r.pdpa > p75)
                 /\ labels(call.low) \cap labels(call.high) = {}
                 /\ \A p \in 1..Len(call.low) : 4 * call.low[p].pdpa < p25
                 /\ \A p \in 1..Len(call.high) : 4 * call.high[p].pdpa > p75

C5_Witness ==
    /\ call.op = "split"
    /\ Len(call.arg) >= 1000
    /\ Len(call.low) > 4
    /\ Len(call.high) > 0
    /\ Len(call.low) + Len(call.high) < Len(call.arg)

\* C9: the pair get_average_curve_between_diastolic_peaks returns holds the
\* averaged curve first and the normalized time axis second, as its docstring says.
C9_DocumentedOrder ==
    (call.op = "curve" /\ call.err = "") =>
        LET df == call.arg
            cycles == ExpectedCycles(df)
            firsts == [i \in 1..Len(cycles) |-> RowAt(df, cycles[i][1])[call.signal]]
        IN  /\ Len(call.ret[1]) = NumPoints
            /\ call.ret[1][1] = MeanOfInts(firsts)
            /\ call.ret[2] = [j \in 1..NumPoints |-> Norm(<<j - 1, NumPoints - 1>>)]

\* C10: with unique index labels and >= 2 markers every cycle's inclusive slice
\* holds at least 2 samples: the skip is never taken, exactly (markers - 1)
\* curves are averaged and "No valid intervals found" is never raised; this
\* holds for the low and high subgroups too, whose labels have gaps.
C10_NoDegenerateCycle ==
    (call.op = "curve" /\ Cardinality(MarkerLabels(call.arg)) >= 2) =>
        /\ call.skipped = 0
        /\ call.n_rescaled = Cardinality(MarkerLabels(call.arg)) - 1
        /\ call.err = ""
        /\ \A i \in 1..Len(call.cycles) : RowsBetween(call.arg, call.cycles[i]) >= 2

C10_Witness ==
    /\ call.op = "curve"
    /\ call.group = "low"
    /\ Len(call.arg) < Len(data)
    /\ call.n_rescaled >= 2
    /\ \E i \in 1..Len(call.cycles) :
           RowsBetween(call.arg, call.cycles[i])
               < call.cycles[i][2] - call.cycles[i][1] + 1

-----------------------------------------------------------------------------
(* Properties of a run of __call__ (Spec) *)

\* the step on which process_file returns: update_results_df has added its row
FileSucceeds == pc = "update" /\ pc' = "walk"

\* C6: the report starts with zero rows and is written empty at construction;
\* a successful process_file adds exactly one row behind the earlier rows, which
\* stay as they were, and no other step touches the report; the file on disk
\* equals the in-memory report whenever the next file is started; processing
\* the same file twice gives two equal rows (nothing is merged).
C6_AppendOnly ==
    /\ result_df = <<>> /\ output_file = <<>>
    /\ [][ /\ FileSucceeds =>
                /\ Len(result_df') = Len(result_df) + 1
                /\ SubSeq(result_df', 1, Len(result_df)) = result_df
                /\ output_file' = result_df'
           /\ ~FileSucceeds =>
                /\ result_df' = result_df
                /\ output_file' = output_file
           /\ pc' \in {"walk", "split", "done"} => output_file' = result_df'
         ]_vars
    /\ [](\A i, j \in 1..Len(result_df) :
             result_df[i].patient_id = result_df[j].patient_id
                 => result_df[i] = result_df[j])

C6_Witness ==
    /\ pc = "done"
    /\ Len(result_df) = 2
    /\ result_df[1].patient_id = result_df[2].patient_id
    /\ output_file = result_df

\* C7: an error raised in any of the groups all, low, high aborts the file: the
\* run stops there, no row of that file exists, the report in memory and on
\* disk is what it was when the file was started, and no later file of the
\* walk is processed.
C7_ErrorAborts ==
    /\ [][ /\ (pc = "plot" /\ Cardinality(MarkerLabels(groups[gi])) < 2) =>
                /\ pc' = "aborted"
                /\ plots' = plots
           /\ pc \in {"split", "plot"} =>
                /\ result_df' = result_df
                /\ output_file' = output_file
           /\ pc = "aborted" => FALSE
         ]_vars
    /\ [](pc = "aborted" =>
             /\ err # ""
             /\ \A i \in 1..Len(result_df) : result_df[i].patient_id # file_name
             /\ output_file = result_df
             /\ ~ENABLED Next)

C7_Witness ==
    /\ pc = "aborted"
    /\ gi = 2
    /\ plots # {}
    /\ walk # <<>>
    /\ Head(walk).dir # "in"
    /\ HasWord(Head(walk).file, <<".", "c", "s", "v">>)

\* C8: the row a file adds carries the file's identifier and one populated
\* block of three columns: rest when the identifier contains "rest", else ado
\* when it contains "ade", else dobu.  The block holds the means of iFR,
\* mid_systolic_ratio and pd/pa over the whole recording (not over a subgroup);
\* the six columns of the other two blocks are missing.
C8_RowContent ==
    [][ FileSucceeds =>
          LET row == result_df'[Len(result_df')]
              block == IF HasWord(file_name, <<"r", "e", "s", "t">>) THEN "rest"
                       ELSE IF HasWord(file_name, <<"a", "d", "e">>) THEN "ado"
                       ELSE "dobu"
          IN  /\ row.patient_id = file_name
              /\ row.stats[block] = <<MeanPresent(data, "iFR"),
                                      MeanPresent(data, "mid_systolic_ratio"),
                                      MeanRatio(data)>>
              /\ \A c \in {"rest", "ado", "dobu"} \ {block} :
                     row.stats[c] = <<<<>>, <<>>, <<>>>>
      ]_vars

C8_Witness ==
    \E i \in 1..Len(result_df) :
        /\ result_df[i].patient_id = <<"r", "e", "s", "t", "_", "a", "d", "e">>
        /\ result_df[i].stats["rest"][3] = <<9493, 200>>
        /\ result_df[i].stats["ado"] = <<<<>>, <<>>, <<>>>>

=============================================================================
